---- MODULE Spec2Model ----
(***************************************************************************)
(* Model of the bill entry form (src/bill.py, class BillEntrySystem): the  *)
(* ledger table, the persisted bill table, the input fields, the Add Item  *)
(* button, the two total labels, and the Indian-numbering word formatter;  *)
(* and of the PDF merger (src/pdfmerger.py, class PDFMergerApp): its list  *)
(* of paths, the list widget that shows it, and the Merge PDFs button.     *)
(*                                                                         *)
(* Python str values are sequences of tokens (a character, a word or a     *)
(* single space), so concatenation is \o and "" is << >>.                  *)
(* Python float values are exact decimals with four fractional digits,     *)
(* [neg, r, f] standing for (-1)^neg * (r + f / 10000): a quantity and a   *)
(* price have at most two decimals each (the validators of init_ui), so a  *)
(* line total quantity * price is exact in this representation. The        *)
(* rounding error of binary floating point is left out, except where it    *)
(* decides a result: a value exactly halfway between two roundings may go  *)
(* either way.                                                             *)
(***************************************************************************)
EXTENDS Integers, Sequences, FiniteSets, TLC

\* ------------------------------------------------------------------------
\* Bounds of the model
\* ------------------------------------------------------------------------

\* most rows the ledger table holds before the Add Item click is cut off
MaxRows == 3

\* most rows the ledger table holds when add_item is called as a method
MaxCallRows == 1

\* most entries pdf_files holds before Select PDF Files is cut off
MaxFiles == 3

\* ------------------------------------------------------------------------
\* Results of Python expressions: a value or a raised exception
\* ------------------------------------------------------------------------

Ret(v) == [exc |-> "none", val |-> v]

Raise(e) == [exc |-> e, val |-> << >>]

\* list[i] of Python, negative indices counting from the end
PyIndex(list, i) ==
    IF 0 <= i /\ i < Len(list) THEN Ret(list[i + 1])
    ELSE IF i < 0 /\ -Len(list) <= i THEN Ret(list[Len(list) + i + 1])
    ELSE Raise("IndexError")

\* ------------------------------------------------------------------------
\* str: strip, replace, join
\* ------------------------------------------------------------------------

RECURSIVE LStrip(_)
LStrip(s) == IF s # << >> /\ Head(s) = " " THEN LStrip(Tail(s)) ELSE s

RECURSIVE RStrip(_)
RStrip(s) ==
    IF s # << >> /\ s[Len(s)] = " " THEN RStrip(SubSeq(s, 1, Len(s) - 1)) ELSE s

\* str.strip()
Strip(s) == RStrip(LStrip(s))

\* str.replace(",", "")
RemoveCommas(s) == SelectSeq(s, LAMBDA c : c # ",")

\* ' '.join(words)
RECURSIVE Join(_)
Join(words) ==
    IF words = << >> THEN << >>
    ELSE IF Len(words) = 1 THEN words[1]
    ELSE words[1] \o <<" ">> \o Join(Tail(words))

\* ------------------------------------------------------------------------
\* float: the decimal representation, parsing and printing
\* ------------------------------------------------------------------------

Scale == 10000

Float(neg, r, f) == [neg |-> neg, r |-> r, f |-> f]

Zero == Float(FALSE, 0, 0)

One == Float(FALSE, 1, 0)

\* x > 0
Positive(x) == ~x.neg /\ (x.r > 0 \/ x.f > 0)

Digits == {"0", "1", "2", "3", "4", "5", "6", "7", "8", "9"}

DigitVal ==
    "0" :> 0 @@ "1" :> 1 @@ "2" :> 2 @@ "3" :> 3 @@ "4" :> 4 @@
    "5" :> 5 @@ "6" :> 6 @@ "7" :> 7 @@ "8" :> 8 @@ "9" :> 9

DigitChar == <<"0", "1", "2", "3", "4", "5", "6", "7", "8", "9">>

IsDigits(s) == \A i \in 1..Len(s) : s[i] \in Digits

\* value of a run of decimal digits
RECURSIVE DigitsVal(_)
DigitsVal(s) ==
    IF s = << >> THEN 0
    ELSE 10 * DigitsVal(SubSeq(s, 1, Len(s) - 1)) + DigitVal[s[Len(s)]]

\* the digits after the point, as a count of 1/10000
FracVal(s) ==
    DigitsVal(SubSeq(s \o <<"0", "0", "0", "0">>, 1, 4))

\* float(text) on the body of a literal, sign removed
ParseUnsigned(neg, s) ==
    LET dots == {i \in 1..Len(s) : s[i] = "."}
    IN  IF dots = {}
        THEN IF s # << >> /\ IsDigits(s)
             THEN Ret(Float(neg /\ DigitsVal(s) # 0, DigitsVal(s), 0))
             ELSE Raise("ValueError")
        ELSE LET d == CHOOSE i \in dots : TRUE
                 ip == SubSeq(s, 1, d - 1)
                 fp == SubSeq(s, d + 1, Len(s))
             IN  IF Cardinality(dots) = 1 /\ IsDigits(ip) /\ IsDigits(fp)
                    /\ Len(ip) + Len(fp) > 0
                 THEN Ret(Float(neg /\ (DigitsVal(ip) # 0 \/ FracVal(fp) # 0),
                                DigitsVal(ip), FracVal(fp)))
                 ELSE Raise("ValueError")

\* float(text): surrounding blanks ignored, an optional sign, digits with an
\* optional point; anything else raises ValueError
PyFloat(text) ==
    LET s == Strip(text)
    IN  IF s = << >> THEN Raise("ValueError")
        ELSE IF Head(s) = "-" THEN ParseUnsigned(TRUE, Tail(s))
        ELSE IF Head(s) = "+" THEN ParseUnsigned(FALSE, Tail(s))
        ELSE ParseUnsigned(FALSE, s)

\* str(n) of a non-negative int
RECURSIVE IntStr(_)
IntStr(n) ==
    IF n < 10 THEN <<DigitChar[n + 1]>>
    ELSE IntStr(n \div 10) \o <<DigitChar[(n % 10) + 1]>>

\* the four fractional digits with the trailing zeros dropped, one at least
RECURSIVE FracStr(_, _)
FracStr(f, width) ==
    IF width = 1 \/ f % 10 # 0
    THEN IF width = 1 THEN <<DigitChar[f + 1]>>
         ELSE FracStr(f \div 10, width - 1) \o <<DigitChar[(f % 10) + 1]>>
    ELSE FracStr(f \div 10, width - 1)

\* str(x) of a float: the shortest literal that parses back to x
FloatStr(x) ==
    (IF x.neg THEN <<"-">> ELSE << >>) \o IntStr(x.r) \o <<".">> \o FracStr(x.f, 4)

\* x + y for non-negative floats
FloatAdd(x, y) ==
    Float(FALSE, x.r + y.r + ((x.f + y.f) \div Scale), (x.f + y.f) % Scale)

\* x * y for non-negative floats of two decimals each; the products are taken
\* limb by limb (base 10000) to stay inside TLC's 32-bit integers
FloatMul(x, y) ==
    LET yh   == y.r \div Scale
        yl   == y.r % Scale
        low  == x.r * y.f + x.f * yl + ((x.f * y.f) \div Scale)
    IN  Float(FALSE, x.r * y.r + x.f * yh + (low \div Scale), low % Scale)

\* ------------------------------------------------------------------------
\* convert_currency_to_words and its nested helpers
\* ------------------------------------------------------------------------

W(word) == <<word>>

units ==
    << << >>, W("One"), W("Two"), W("Three"), W("Four"), W("Five"), W("Six"),
       W("Seven"), W("Eight"), W("Nine"), W("Ten"), W("Eleven"), W("Twelve"),
       W("Thirteen"), W("Fourteen"), W("Fifteen"), W("Sixteen"),
       W("Seventeen"), W("Eighteen"), W("Nineteen") >>

tens ==
    << << >>, << >>, W("Twenty"), W("Thirty"), W("Forty"), W("Fifty"),
       W("Sixty"), W("Seventy"), W("Eighty"), W("Ninety") >>

\* left + right, the left operand evaluated (and raising) first
Concat(left, right) ==
    IF left.exc # "none" THEN left
    ELSE IF right.exc # "none" THEN right
    ELSE Ret(left.val \o right.val)

\* the value of r handed on to F, or the exception r raised
Bind(r, F(_)) == IF r.exc # "none" THEN r ELSE F(r.val)

convert_two_digits(n) ==
    IF n = 0 THEN Ret(<< >>)
    ELSE IF n < 20 THEN PyIndex(units, n)
    ELSE Concat(PyIndex(tens, n \div 10),
                IF n % 10 = 0 THEN Ret(<< >>)
                ELSE Concat(Ret(<<" ">>), PyIndex(units, n % 10)))

convert_three_digits(n) ==
    IF n = 0 THEN Ret(<< >>)
    ELSE IF n < 100 THEN convert_two_digits(n)
    ELSE Concat(Concat(PyIndex(units, n \div 100), Ret(<<" ", "Hundred">>)),
                IF n % 100 = 0 THEN Ret(<< >>)
                ELSE Concat(Ret(<<" ">>), convert_two_digits(n % 100)))

\* if group > 0: words.append(convert_two_digits(group) + suffix), as the
\* list of what was appended
GroupAppend(group, suffix) ==
    IF group > 0
    THEN Bind(convert_two_digits(group), LAMBDA w : Ret(<<w \o suffix>>))
    ELSE Ret(<< >>)

\* if hundred > 0: words.append(convert_three_digits(hundred))
HundredAppend(hundred) ==
    IF hundred > 0
    THEN Bind(convert_three_digits(hundred), LAMBDA w : Ret(<<w>>))
    ELSE Ret(<< >>)

\* num_to_words with the lakh group put in front of the crore group
GroupWords_LakhFirst(n) ==
    LET crore    == n \div 10000000
        n1       == n % 10000000
        lakh     == n1 \div 100000
        n2       == n1 % 100000
        thousand == n2 \div 1000
        hundred  == n2 % 1000
    IN  Concat(Concat(Concat(GroupAppend(lakh, <<" ", "Lakh">>),
                             GroupAppend(crore, <<" ", "Crore">>)),
                      GroupAppend(thousand, <<" ", "Thousand">>)),
               HundredAppend(hundred))

\* the list words of num_to_words after its four appends, or the exception
\* raised by the first append that fails
GroupWords(n) ==
    LET crore    == n \div 10000000
        n1       == n % 10000000
        lakh     == n1 \div 100000
        n2       == n1 % 100000
        thousand == n2 \div 1000
        hundred  == n2 % 1000
    IN  Concat(Concat(Concat(GroupAppend(crore, <<" ", "Crore">>),
                             GroupAppend(lakh, <<" ", "Lakh">>)),
                      GroupAppend(thousand, <<" ", "Thousand">>)),
               HundredAppend(hundred))

num_to_words(n) ==
    IF n = 0 THEN Ret(W("Zero"))
    ELSE Bind(GroupWords(n), LAMBDA words : Ret(Strip(Join(words))))

\* int(amount): truncation towards zero
PyInt(amount) == IF amount.neg THEN -amount.r ELSE amount.r

\* round((amount - rupees) * 100): the nearest whole number of paise. At an
\* exact half the binary value of the product decides, which the decimal
\* representation cannot tell: tieUp chooses.
RoundPaise(amount, tieUp) ==
    LET q == amount.f \div 100
        m == amount.f % 100
        p == IF m > 50 \/ (m = 50 /\ tieUp) THEN q + 1 ELSE q
    IN  IF amount.neg THEN -p ELSE p

\* the return statement of convert_currency_to_words
Phrase(rupees_in_words, paise) ==
    IF paise > 0
    THEN Bind(num_to_words(paise),
              LAMBDA paise_in_words :
                  Ret(rupees_in_words \o <<" ", "Rupees", " ", "and", " ">>
                      \o paise_in_words \o <<" ", "Paise">>))
    ELSE Ret(rupees_in_words \o <<" ", "Rupees">>)

convert_currency_to_words(amount, tieUp) ==
    Bind(num_to_words(PyInt(amount)),
         LAMBDA rupees_in_words : Phrase(rupees_in_words, RoundPaise(amount, tieUp)))

\* ------------------------------------------------------------------------
\* The form: state
\* ------------------------------------------------------------------------

VARIABLES
    table,                  \* self.table: the rows, five cell texts each
    db,                     \* the rows of the bill table of bill_entries.db
    total_label,            \* self.total_label text
    total_in_words_label,   \* self.total_in_words_label text
    item_input,             \* self.item_input text
    quantity_input,         \* self.quantity_input text
    price_input,            \* self.price_input text
    add_button,             \* self.add_button.isEnabled()
    currentRow,             \* self.table.currentRow(), -1 when there is none
    exc,                    \* the exception that ended the process, or "none"
    last,                   \* the last event: its handler, for remove_item
                            \* the row that was current, for clear_all the
                            \* number of rows it found, for a call of add_item
                            \* the rows it found and the length of the
                            \* quantity text
    conv,                   \* the last call of convert_currency_to_words made
                            \* on its own: its amount, the way a half paisa
                            \* went, and what it returned or raised
    pdf_files,              \* PDFMergerApp.pdf_files
    pdf_list_widget,        \* the item texts of pdf_list_widget, row by row
    selectedRow,            \* the row of the selected item, -1 when there is none
    merge_button,           \* merge_button.isEnabled()
    label,                  \* the text of the merger's label
    pdf_exc                 \* the exception that ended the merger, or "none"

\* the variables of the bill form
billVars ==
    <<table, db, total_label, total_in_words_label, item_input,
      quantity_input, price_input, add_button, currentRow, exc>>

\* the variables of the PDF merger (src/pdfmerger.py, class PDFMergerApp)
pdfVars ==
    <<pdf_files, pdf_list_widget, selectedRow, merge_button, label, pdf_exc>>

vars == <<billVars, last, conv, pdfVars>>

\* the widgets and the database as one value, for handlers that run in sequence
Cur ==
    [table |-> table, db |-> db, total_label |-> total_label,
     total_in_words_label |-> total_in_words_label, item_input |-> item_input,
     quantity_input |-> quantity_input, price_input |-> price_input,
     add_button |-> add_button, currentRow |-> currentRow, exc |-> exc]

Becomes(s) ==
    /\ table' = s.table
    /\ db' = s.db
    /\ total_label' = s.total_label
    /\ total_in_words_label' = s.total_in_words_label
    /\ item_input' = s.item_input
    /\ quantity_input' = s.quantity_input
    /\ price_input' = s.price_input
    /\ add_button' = s.add_button
    /\ currentRow' = s.currentRow
    /\ exc' = s.exc

\* column numbers of the table and of the SELECT of load_data_from_db
ColName == 1
ColQuantity == 2
ColPrice == 3
ColTotal == 4
ColDate == 5

\* ------------------------------------------------------------------------
\* Inputs
\* ------------------------------------------------------------------------

\* texts typed into the item name field
ItemTexts == {<< >>, <<" ">>, <<"A">>}

\* texts the quantity validator ^\d{1,3}(\.\d{1,2})?$ lets through
QuantityTexts == {<< >>, <<"0">>, <<"9", "9", "9", ".", "9", "9">>}

\* texts the price validator ^\d{1,8}(\.\d{1,2})?$ lets through
PriceTexts ==
    {<< >>, <<"0">>, <<"0", ".", "0", "5">>,
     <<"1", "0", "0", "0", "0", "1", "1">>}

\* date_input.date().toString("dd-MM-yyyy")
Dates == {<<"03-11-2026">>}

\* ------------------------------------------------------------------------
\* Handlers
\* ------------------------------------------------------------------------

\* the handler goes on with the value of r, or ends with the exception r raised
OrRaise(s, r, F(_)) == IF r.exc # "none" THEN [s EXCEPT !.exc = r.exc] ELSE F(r.val)

\* the quantity with a blank text taken as 0
QuantityOf_BlankIsZero(text) ==
    IF Strip(text) = << >> THEN Ret(Zero) ELSE PyFloat(Strip(text))

\* float(self.quantity_input.text().strip() or 1)
QuantityOf(text) == IF Strip(text) = << >> THEN Ret(One) ELSE PyFloat(Strip(text))

\* float(self.price_input.text().replace(",", ""))
PriceOf(text) == PyFloat(RemoveCommas(text))

\* check_fields from its if statement on
FieldsValid(item_name, quantity, price) ==
    item_name # << >> /\ Positive(quantity) /\ Positive(price)

\* check_fields that tests the name as typed, blanks and all
check_fields_NoStrip(s) ==
    LET tried == Bind(QuantityOf(s.quantity_input),
                      LAMBDA quantity :
                          Bind(PriceOf(s.price_input),
                               LAMBDA price :
                                   Ret(FieldsValid(s.item_input, quantity, price))))
    IN  [s EXCEPT !.add_button = tried.exc = "none" /\ tried.val]

\* the try block of check_fields passes unless a float() raises ValueError
check_fields(s) ==
    LET tried == Bind(QuantityOf(s.quantity_input),
                      LAMBDA quantity :
                          Bind(PriceOf(s.price_input),
                               LAMBDA price :
                                   Ret(FieldsValid(Strip(s.item_input), quantity, price))))
    IN  [s EXCEPT !.add_button = tried.exc = "none" /\ tried.val]

\* QLineEdit.clear() on the three fields; each change of text runs check_fields
ClearInputs(s) ==
    check_fields([s EXCEPT !.item_input = << >>, !.quantity_input = << >>,
                           !.price_input = << >>])

\* save_item_to_db with the row inserted at the top of the table
save_item_to_db_Top(s, item_name, quantity, price, total, date) ==
    LET row == [item_name |-> item_name, quantity |-> quantity, price |-> price,
                total |-> total, date |-> date]
        cells == <<item_name, FloatStr(quantity), FloatStr(price),
                   FloatStr(total), date>>
        s1 == [s EXCEPT !.db = Append(s.db, row), !.table = <<cells>> \o s.table]
    IN  [ClearInputs(s1) EXCEPT !.add_button = FALSE]

save_item_to_db(s, item_name, quantity, price, total, date) ==
    LET row == [item_name |-> item_name, quantity |-> quantity, price |-> price,
                total |-> total, date |-> date]
        cells == <<item_name, FloatStr(quantity), FloatStr(price),
                   FloatStr(total), date>>
        s1 == [s EXCEPT !.db = Append(s.db, row), !.table = Append(s.table, cells)]
    IN  [ClearInputs(s1) EXCEPT !.add_button = FALSE]

\* add_item from its if statement on, its own check of the name and the
\* signs left out
AddChecked_Unchecked(s, item_name, quantity, price, date) ==
    save_item_to_db(s, item_name, quantity, price, FloatMul(quantity, price), date)

\* add_item from its if statement on
AddChecked(s, item_name, quantity, price, date) ==
    IF item_name # << >> /\ Positive(quantity) /\ Positive(price)
    THEN save_item_to_db(s, item_name, quantity, price, FloatMul(quantity, price), date)
    ELSE s

add_item(s, date) ==
    OrRaise(s, QuantityOf(s.quantity_input),
            LAMBDA quantity :
                OrRaise(s, PriceOf(s.price_input),
                        LAMBDA price :
                            AddChecked(s, s.item_input, quantity, price, date)))

\* removeRow with the row number taken as counted from one
RemoveRow_FromOne(rows, row) ==
    SubSeq(rows, 1, row - 1) \o SubSeq(rows, row + 1, Len(rows))

\* QTableWidget.removeRow(row)
RemoveRow(rows, row) ==
    SubSeq(rows, 1, row) \o SubSeq(rows, row + 2, Len(rows))

\* the current row after removeRow took the current one: the view moves to the
\* row that followed it, else to the one before, else there is none
CurrentAfterRemove(row, remaining) ==
    IF row < remaining THEN row ELSE remaining - 1

\* DELETE FROM bill WHERE item_name=?
DeleteByName(rows, name) == SelectSeq(rows, LAMBDA r : r.item_name # name)

\* remove_item that takes the last row when none is current
remove_item_Last(s) ==
    LET selected_row == IF s.currentRow >= 0 THEN s.currentRow ELSE Len(s.table) - 1
    IN  IF selected_row >= 0
        THEN LET item_id == s.table[selected_row + 1][ColName]
             IN  [s EXCEPT !.db = DeleteByName(s.db, item_id),
                           !.table = RemoveRow(s.table, selected_row),
                           !.currentRow =
                               CurrentAfterRemove(selected_row, Len(s.table) - 1)]
        ELSE s

remove_item(s) ==
    LET selected_row == s.currentRow
    IN  IF selected_row >= 0
        THEN LET item_id == s.table[selected_row + 1][ColName]
             IN  [s EXCEPT !.db = DeleteByName(s.db, item_id),
                           !.table = RemoveRow(s.table, selected_row),
                           !.currentRow =
                               CurrentAfterRemove(selected_row, Len(s.table) - 1)]
        ELSE s

\* "Total: " stands for the label's prefix, rupee sign included
ZeroTotalText == <<"Total: ", "0", ".", "0", "0">>

ZeroWordsText == <<"Total in Words: ", "Zero", " ", "Rupees">>

\* clear_all that leaves the two labels as they were
clear_all_KeepLabels(s) ==
    [s EXCEPT !.db = << >>, !.table = << >>, !.currentRow = -1]

clear_all(s) ==
    [s EXCEPT !.db = << >>, !.table = << >>, !.currentRow = -1,
              !.total_label = ZeroTotalText,
              !.total_in_words_label = ZeroWordsText]

\* sum(float(self.table.item(row, 3).text()) for row in range(rowCount))
RECURSIVE SumTotals(_)
SumTotals(rows) ==
    IF rows = << >> THEN Ret(Zero)
    ELSE LET rest == SumTotals(SubSeq(rows, 1, Len(rows) - 1))
             cell == PyFloat(rows[Len(rows)][ColTotal])
         IN  IF rest.exc # "none" THEN rest
             ELSE IF cell.exc # "none" THEN cell
             ELSE Ret(FloatAdd(rest.val, cell.val))

\* the digits of n in groups of three with commas between
RECURSIVE GroupedIntStr(_)
GroupedIntStr(n) ==
    IF n < 1000 THEN IntStr(n)
    ELSE GroupedIntStr(n \div 1000) \o <<",">>
         \o <<DigitChar[((n \div 100) % 10) + 1], DigitChar[((n \div 10) % 10) + 1],
              DigitChar[(n % 10) + 1]>>

\* f"{total:,.2f}": two decimals, rounded to the nearest; tieUp decides an
\* exact half as the binary value would
Format2f(total, tieUp) ==
    LET q == total.f \div 100
        m == total.f % 100
        c == IF m > 50 \/ (m = 50 /\ tieUp) THEN q + 1 ELSE q
        r == IF c = 100 THEN total.r + 1 ELSE total.r
    IN  GroupedIntStr(r) \o <<".">>
        \o <<DigitChar[((c % 100) \div 10) + 1], DigitChar[(c % 10) + 1]>>

\* the two setText calls of calculate_total
ShowTotal(s, total, total_in_words, tieUp) ==
    [s EXCEPT !.total_label = <<"Total: ">> \o Format2f(total, tieUp),
              !.total_in_words_label = <<"Total in Words: ">> \o total_in_words]

calculate_total(s, tieUp) ==
    OrRaise(s, SumTotals(s.table),
            LAMBDA total :
                OrRaise(s, convert_currency_to_words(total, tieUp),
                        LAMBDA total_in_words :
                            ShowTotal(s, total, total_in_words, tieUp)))

\* the ways an exact half paisa of the sum of the rows may round
TieChoices(rows) ==
    IF Bind(SumTotals(rows), LAMBDA total : Ret(total.f % 100 = 50)).val = TRUE
    THEN BOOLEAN ELSE {FALSE}

\* one fetched row as the five texts setItem stores: str(value) per column
LoadRow(r) ==
    <<r.item_name, FloatStr(r.quantity), FloatStr(r.price), FloatStr(r.total),
      r.date>>

RECURSIVE LoadRows(_)
LoadRows(rows) ==
    IF rows = << >> THEN << >>
    ELSE Append(LoadRows(SubSeq(rows, 1, Len(rows) - 1)), LoadRow(rows[Len(rows)]))

load_data_from_db(s, tieUp) ==
    calculate_total([s EXCEPT !.table = s.table \o LoadRows(s.db)], tieUp)

\* the widgets as init_ui leaves them, over the database file as it is
init_ui(rows) ==
    [table |-> << >>, db |-> rows, total_label |-> ZeroTotalText,
     total_in_words_label |-> ZeroWordsText, item_input |-> << >>,
     quantity_input |-> << >>, price_input |-> << >>, add_button |-> FALSE,
     currentRow |-> -1, exc |-> "none"]

\* ------------------------------------------------------------------------
\* convert_currency_to_words called on its own
\* ------------------------------------------------------------------------

\* values of the crore, lakh, thousand and hundred groups of the amounts
\* converted, and of their fractions in 1/10000 of a rupee
CroreGroups == {0, 1, 12, 99, 100}

LakhGroups == {0, 5, 12}

ThousandGroups == {0, 34, 99}

HundredGroups == {0, 7, 100, 567, 999}

Fractions == {0, 50, 100, 8900, 9950, 9999}

\* the amounts handed to convert_currency_to_words, -0.0 left out
Amounts ==
    {Float(neg, crore * 10000000 + lakh * 100000 + thousand * 1000 + hundred, f) :
        neg \in BOOLEAN, crore \in CroreGroups, lakh \in LakhGroups,
        thousand \in ThousandGroups, hundred \in HundredGroups, f \in Fractions}
    \ {Float(TRUE, 0, 0)}

\* the ways an exact half paisa of the amount may round
Halves(amount) == IF amount.f % 100 = 50 THEN BOOLEAN ELSE {FALSE}

\* an amount about to be handed to convert_currency_to_words
ConvArgs(amount, tieUp) ==
    [amount |-> amount, tieUp |-> tieUp, called |-> FALSE, result |-> Ret(<< >>)]

\* a call of convert_currency_to_words(amount) and its outcome
ConvCall(amount, tieUp) ==
    [amount |-> amount, tieUp |-> tieUp, called |-> TRUE,
     result |-> convert_currency_to_words(amount, tieUp)]

\* ------------------------------------------------------------------------
\* The PDF merger: handlers
\* ------------------------------------------------------------------------

\* the lists of paths QFileDialog.getOpenFileNames returns, empty on Cancel
FileChoices ==
    {<< >>, <<"a.pdf">>, <<"b.pdf">>, <<"a.pdf", "b.pdf">>}

\* what QFileDialog.getSaveFileName and PdfMerger then do: the dialog is
\* cancelled, append or write raises, or the merged file is written
MergeOutcomes == {"cancelled", "raised", "written"}

StartLabel == "No PDF files selected."

MergedLabel == "PDFs merged successfully!"

\* the merger's widgets and list as one value
PdfCur ==
    [pdf_files |-> pdf_files, pdf_list_widget |-> pdf_list_widget,
     selectedRow |-> selectedRow, merge_button |-> merge_button,
     label |-> label, pdf_exc |-> pdf_exc]

PdfBecomes(m) ==
    /\ pdf_files' = m.pdf_files
    /\ pdf_list_widget' = m.pdf_list_widget
    /\ selectedRow' = m.selectedRow
    /\ merge_button' = m.merge_button
    /\ label' = m.label
    /\ pdf_exc' = m.pdf_exc

\* PDFMergerApp.__init__
init_pdf ==
    [pdf_files |-> << >>, pdf_list_widget |-> << >>, selectedRow |-> -1,
     merge_button |-> FALSE, label |-> StartLabel, pdf_exc |-> "none"]

\* clear() and addItems(self.pdf_files): the new items are not selected
update_pdf_list_widget(m) ==
    [m EXCEPT !.pdf_list_widget = m.pdf_files, !.selectedRow = -1]

select_pdfs(m, files) ==
    IF files # << >>
    THEN [update_pdf_list_widget([m EXCEPT !.pdf_files = m.pdf_files \o files])
             EXCEPT !.merge_button = TRUE]
    ELSE m

\* list.remove(x): the first entry equal to x goes, ValueError if there is none
PyRemove(list, x) ==
    LET at == {i \in 1..Len(list) : list[i] = x}
    IN  IF at = {} THEN Raise("ValueError")
        ELSE LET first == CHOOSE i \in at : \A j \in at : i <= j
             IN  Ret(SubSeq(list, 1, first - 1) \o SubSeq(list, first + 1, Len(list)))

\* QListWidget.takeItem(row)
TakeItem(items, row) ==
    SubSeq(items, 1, row) \o SubSeq(items, row + 2, Len(items))

\* the selected row after takeItem took the selected one: the view may move
\* the selection to the item that took its place, or leave none selected
SelectedAfterTake(row, remaining) ==
    {-1} \cup (IF remaining > 0 THEN {CurrentAfterRemove(row, remaining)} ELSE {})

\* the list widget selects one item at most (SingleSelection), so the loop
\* over selectedItems() runs once; selected is the row selected afterwards
remove_pdf(m, selected) ==
    IF m.selectedRow >= 0
    THEN LET text    == m.pdf_list_widget[m.selectedRow + 1]
             removed == PyRemove(m.pdf_files, text)
         IN  IF removed.exc # "none" THEN [m EXCEPT !.pdf_exc = removed.exc]
             ELSE LET m1 == [m EXCEPT !.pdf_files = removed.val,
                                      !.pdf_list_widget =
                                          TakeItem(m.pdf_list_widget, m.selectedRow),
                                      !.selectedRow = selected]
                  IN  IF m1.pdf_files = << >>
                      THEN [m1 EXCEPT !.merge_button = FALSE]
                      ELSE m1
    ELSE m

\* a[i], a[j] = a[j], a[i] that only copies a[j] into a[i]
Swap_Copy(list, i, j) == [list EXCEPT ![i + 1] = list[j + 1]]

\* a[i], a[j] = a[j], a[i], rows counted from zero
Swap(list, i, j) == [list EXCEPT ![i + 1] = list[j + 1], ![j + 1] = list[i + 1]]

move_up(m) ==
    IF m.selectedRow >= 0 /\ m.selectedRow > 0
    THEN update_pdf_list_widget(
             [m EXCEPT !.pdf_files = Swap(m.pdf_files, m.selectedRow, m.selectedRow - 1)])
    ELSE m

move_down(m) ==
    IF m.selectedRow >= 0 /\ m.selectedRow < Len(m.pdf_files) - 1
    THEN update_pdf_list_widget(
             [m EXCEPT !.pdf_files = Swap(m.pdf_files, m.selectedRow, m.selectedRow + 1)])
    ELSE m

merge_pdfs(m, outcome) ==
    IF m.pdf_files = << >> \/ outcome = "cancelled" THEN m
    ELSE IF outcome = "raised" THEN [m EXCEPT !.pdf_exc = "Exception"]
    ELSE update_pdf_list_widget([m EXCEPT !.label = MergedLabel, !.pdf_files = << >>])

\* ------------------------------------------------------------------------
\* Events
\* ------------------------------------------------------------------------

Event(op) ==
    [op |-> op,
     row |-> IF op = "remove_item" THEN currentRow
             ELSE IF op = "call_add_item" THEN Len(table)
             ELSE -1,
     n |-> IF op = "clear_all" THEN Len(table)
           ELSE IF op = "call_add_item" THEN Len(quantity_input)
           ELSE 0]

\* first start: init_db creates an empty bill table, then __init__ loads it
InitBill ==
    /\ \E tieUp \in TieChoices(<< >>) :
         LET s == load_data_from_db(init_ui(<< >>), tieUp)
         IN  /\ table = s.table
             /\ db = s.db
             /\ total_label = s.total_label
             /\ total_in_words_label = s.total_in_words_label
             /\ item_input = s.item_input
             /\ quantity_input = s.quantity_input
             /\ price_input = s.price_input
             /\ add_button = s.add_button
             /\ currentRow = s.currentRow
             /\ exc = s.exc
    /\ last = [op |-> "init", row |-> -1, n |-> 0]

\* the merger starts with no file
InitPdf ==
    /\ pdf_files = init_pdf.pdf_files
    /\ pdf_list_widget = init_pdf.pdf_list_widget
    /\ selectedRow = init_pdf.selectedRow
    /\ merge_button = init_pdf.merge_button
    /\ label = init_pdf.label
    /\ pdf_exc = init_pdf.pdf_exc

\* both programs started; loading the empty ledger has converted its total 0
Init ==
    /\ InitBill
    /\ InitPdf
    /\ conv = ConvCall(Zero, FALSE)

\* an amount is chosen for convert_currency_to_words
InitWords ==
    /\ InitBill
    /\ InitPdf
    /\ \E amount \in Amounts :
         \E tieUp \in Halves(amount) : conv = ConvArgs(amount, tieUp)

\* the user edits the item name; textChanged runs check_fields
EditItem ==
    /\ exc = "none"
    /\ \E t \in ItemTexts \ {item_input} :
         Becomes(check_fields([Cur EXCEPT !.item_input = t]))
    /\ last' = Event("edit")
    /\ UNCHANGED <<conv, pdfVars>>

EditQuantity ==
    /\ exc = "none"
    /\ \E t \in QuantityTexts \ {quantity_input} :
         Becomes(check_fields([Cur EXCEPT !.quantity_input = t]))
    /\ last' = Event("edit")
    /\ UNCHANGED <<conv, pdfVars>>

EditPrice ==
    /\ exc = "none"
    /\ \E t \in PriceTexts \ {price_input} :
         Becomes(check_fields([Cur EXCEPT !.price_input = t]))
    /\ last' = Event("edit")
    /\ UNCHANGED <<conv, pdfVars>>

\* the user clicks a row of the table
SelectRow ==
    /\ exc = "none"
    /\ \E row \in 0..(Len(table) - 1) :
         /\ row # currentRow
         /\ currentRow' = row
    /\ last' = Event("select")
    /\ UNCHANGED <<conv, pdfVars>>
    /\ UNCHANGED <<table, db, total_label, total_in_words_label, item_input,
                   quantity_input, price_input, add_button, exc>>

\* clicked of the enabled Add Item button: add_item, then calculate_total
ClickAdd ==
    /\ exc = "none"
    /\ add_button
    /\ Len(table) < MaxRows
    /\ \E date \in Dates :
         LET s1 == add_item(Cur, date)
         IN  IF s1.exc # "none" THEN Becomes(s1)
             ELSE \E tieUp \in TieChoices(s1.table) :
                    Becomes(calculate_total(s1, tieUp))
    /\ last' = Event("add_item")
    /\ UNCHANGED <<conv, pdfVars>>

\* clicked of Remove Item
ClickRemove ==
    /\ exc = "none"
    /\ Becomes(remove_item(Cur))
    /\ last' = Event("remove_item")
    /\ UNCHANGED <<conv, pdfVars>>

\* clicked of Clear All
ClickClear ==
    /\ exc = "none"
    /\ Becomes(clear_all(Cur))
    /\ last' = Event("clear_all")
    /\ UNCHANGED <<conv, pdfVars>>

\* the window is closed (or the process has ended) and the program is started
\* again over the same database file
Restart ==
    /\ \E tieUp \in TieChoices(LoadRows(db)) :
         Becomes(load_data_from_db(init_ui(db), tieUp))
    /\ last' = Event("restart")
    /\ UNCHANGED <<conv, pdfVars>>

\* calculate_total would show the sum of these rows
Displayable(rows) ==
    Bind(SumTotals(rows), LAMBDA total : convert_currency_to_words(total, FALSE)).exc
        = "none"

\* add_item called as a method, whatever the state of the button; its caller
\* does not go on to calculate_total. Calls are made while the ledger is one
\* the form can show, which keeps the sums inside TLC's 32-bit integers.
CallAddItem ==
    /\ exc = "none"
    /\ Displayable(table)
    /\ \E date \in Dates :
         LET s1 == add_item(Cur, date)
         IN  /\ Len(s1.table) <= MaxCallRows
             /\ Becomes(s1)
    /\ last' = Event("call_add_item")
    /\ UNCHANGED <<conv, pdfVars>>

\* quantity texts only a caller can set: setText is not held to the validator
CallerQuantityTexts == {<<" ">>}

\* the caller of add_item sets the quantity text; textChanged runs check_fields
SetQuantityText ==
    /\ exc = "none"
    /\ \E t \in CallerQuantityTexts \ {quantity_input} :
         Becomes(check_fields([Cur EXCEPT !.quantity_input = t]))
    /\ last' = Event("edit")
    /\ UNCHANGED <<conv, pdfVars>>

\* convert_currency_to_words is called with the amount chosen
Convert ==
    /\ ~conv.called
    /\ conv' = ConvCall(conv.amount, conv.tieUp)
    /\ UNCHANGED <<billVars, last, pdfVars>>

\* the last event of the merger: its handler, the row that was selected and
\* the number of entries pdf_files had
PdfEvent(op) == [op |-> op, row |-> selectedRow, n |-> Len(pdf_files)]

\* clicked of Select PDF Files
ClickSelectPdfs ==
    /\ pdf_exc = "none"
    /\ \E files \in FileChoices :
         /\ Len(pdf_files) + Len(files) <= MaxFiles
         /\ PdfBecomes(select_pdfs(PdfCur, files))
    /\ last' = PdfEvent("select_pdfs")
    /\ UNCHANGED <<billVars, conv>>

\* the user clicks an item of the list widget
SelectPdfRow ==
    /\ pdf_exc = "none"
    /\ \E row \in 0..(Len(pdf_list_widget) - 1) :
         /\ row # selectedRow
         /\ selectedRow' = row
    /\ last' = PdfEvent("select_item")
    /\ UNCHANGED <<billVars, conv, pdf_files, pdf_list_widget, merge_button,
                   label, pdf_exc>>

\* clicked of Remove Selected PDF
ClickRemovePdf ==
    /\ pdf_exc = "none"
    /\ \E selected \in SelectedAfterTake(selectedRow, Len(pdf_list_widget) - 1) :
         PdfBecomes(remove_pdf(PdfCur, selected))
    /\ last' = PdfEvent("remove_pdf")
    /\ UNCHANGED <<billVars, conv>>

\* clicked of Move Up
ClickMoveUp ==
    /\ pdf_exc = "none"
    /\ PdfBecomes(move_up(PdfCur))
    /\ last' = PdfEvent("move_up")
    /\ UNCHANGED <<billVars, conv>>

\* clicked of Move Down
ClickMoveDown ==
    /\ pdf_exc = "none"
    /\ PdfBecomes(move_down(PdfCur))
    /\ last' = PdfEvent("move_down")
    /\ UNCHANGED <<billVars, conv>>

\* clicked of the enabled Merge PDFs button
ClickMerge ==
    /\ pdf_exc = "none"
    /\ merge_button
    /\ \E outcome \in MergeOutcomes : PdfBecomes(merge_pdfs(PdfCur, outcome))
    /\ last' = PdfEvent("merge_pdfs")
    /\ UNCHANGED <<billVars, conv>>

\* the merger's window is closed (or its process has ended) and it is started
\* again
RestartPdf ==
    /\ PdfBecomes(init_pdf)
    /\ last' = PdfEvent("restart")
    /\ UNCHANGED <<billVars, conv>>

Next ==
    \/ EditItem
    \/ EditQuantity
    \/ EditPrice
    \/ SelectRow
    \/ ClickAdd
    \/ ClickRemove
    \/ ClickClear
    \/ Restart

Spec == Init /\ [][Next]_vars

\* the ledger operations with add_item called as a method: what add_item
\* itself admits, without the button in front of it
NextCall ==
    \/ EditItem
    \/ EditQuantity
    \/ EditPrice
    \/ SetQuantityText
    \/ SelectRow
    \/ CallAddItem
    \/ ClickRemove
    \/ ClickClear

SpecCall == Init /\ [][NextCall]_vars

\* the formatter on its own, over the amounts of Amounts
NextWords == Convert

SpecWords == InitWords /\ [][NextWords]_vars

\* the PDF merger
NextPdf ==
    \/ ClickSelectPdfs
    \/ SelectPdfRow
    \/ ClickRemovePdf
    \/ ClickMoveUp
    \/ ClickMoveDown
    \/ ClickMerge
    \/ RestartPdf

SpecPdf == Init /\ [][NextPdf]_vars

\* ------------------------------------------------------------------------
\* Properties
\* ------------------------------------------------------------------------

\* the grand total: the sum of the total cells of the rows
GrandTotal(rows) == SumTotals(rows).val

Count(seq, x) == Cardinality({i \in 1..Len(seq) : seq[i] = x})

Cells(seq) == {seq[i] : i \in 1..Len(seq)}

\* C1: the rows persisted in the bill table are, as a multiset, the rows of
\* the ledger table, each persisted row read back as load_data_from_db reads it.
C1_PersistedRowsAreLedger ==
    \A cells \in Cells(table) \cup Cells(LoadRows(db)) :
        Count(table, cells) = Count(LoadRows(db), cells)

\* C2: whenever the form is running, the total label shows the sum of the
\* total cells of the table and the words label shows that sum in words.
C2_TotalNeverStale ==
    exc = "none" =>
        \E tieUp \in TieChoices(table) :
            LET words == convert_currency_to_words(GrandTotal(table), tieUp)
            IN  /\ words.exc = "none"
                /\ total_label = <<"Total: ">> \o Format2f(GrandTotal(table), tieUp)
                /\ total_in_words_label = <<"Total in Words: ">> \o words.val

\* C3: a click on the enabled Add Item button makes the table one row longer,
\* keeps the rows that were there in place, puts the new row last with the
\* name typed, the quantity, the price and total = quantity * price, and
\* raises the grand total by quantity * price.
C3_AddAppendsOne ==
    [][ClickAdd =>
        LET quantity == QuantityOf(quantity_input).val
            price    == PriceOf(price_input).val
            new      == table'[Len(table')]
        IN  /\ Len(table') = Len(table) + 1
            /\ SubSeq(table', 1, Len(table)) = table
            /\ new[ColName] = item_input
            /\ PyFloat(new[ColQuantity]).val = quantity
            /\ PyFloat(new[ColPrice]).val = price
            /\ PyFloat(new[ColTotal]).val = FloatMul(quantity, price)
            /\ GrandTotal(table') = FloatAdd(GrandTotal(table), FloatMul(quantity, price))
    ]_vars

\* a second item has just been added below an existing one
C3_Witness == last.op = "add_item" /\ Len(table) >= 2 /\ exc = "none"

\* the fields hold numbers, and a blank name, a quantity <= 0 or a price <= 0
InvalidFields ==
    /\ QuantityOf(quantity_input).exc = "none"
    /\ PriceOf(price_input).exc = "none"
    /\ \/ Strip(item_input) = << >>
       \/ ~Positive(QuantityOf(quantity_input).val)
       \/ ~Positive(PriceOf(price_input).val)

\* C4: add_item called with a blank name, a quantity <= 0 or a price <= 0
\* fails with a ValidationError and leaves the table, the persisted rows and
\* the grand total as they were.
C4_InvalidAddRejected ==
    [][(CallAddItem /\ InvalidFields) =>
        /\ exc' = "ValidationError"
        /\ table' = table
        /\ db' = db
        /\ GrandTotal(table') = GrandTotal(table)
    ]_vars

\* C5: every row of the ledger has a non-empty name, a quantity > 0, a price
\* > 0 and a total cell equal to quantity * price.
C5_ItemsValid ==
    \A i \in 1..Len(table) :
        LET quantity == PyFloat(table[i][ColQuantity])
            price    == PyFloat(table[i][ColPrice])
            total    == PyFloat(table[i][ColTotal])
        IN  /\ table[i][ColName] # << >>
            /\ quantity.exc = "none" /\ Positive(quantity.val)
            /\ price.exc = "none" /\ Positive(price.val)
            /\ total.exc = "none"
            /\ total.val = FloatMul(quantity.val, price.val)

\* add_item has just put a row into the ledger and cleared the fields (with
\* the price field empty before the call, float() would have raised)
C5_Witness ==
    /\ last.op = "call_add_item"
    /\ exc = "none"
    /\ price_input = << >>
    /\ Len(table) >= 1

\* C6: remove_item with row i current makes the table one row shorter, keeps
\* the rows before i where they were and moves each row after i up by one.
C6_RemoveExactlyRow ==
    [][(ClickRemove /\ currentRow >= 0) =>
        /\ Len(table') = Len(table) - 1
        /\ \A j \in 1..Len(table') :
              table'[j] = IF j <= currentRow THEN table[j] ELSE table[j + 1]
    ]_vars

\* the middle row of three has just been removed
C6_Witness == last.op = "remove_item" /\ last.row = 1 /\ Len(table) = 2

\* no row of the table is current
NoRowSelected == currentRow < 0 \/ currentRow >= Len(table)

C8_ClearAll ==
    [][ClickClear =>
        /\ table' = << >>
        /\ db' = << >>
        /\ total_label' = <<"Total: ", "0", ".", "0", "0">>
        /\ total_in_words_label' = <<"Total in Words: ", "Zero", " ", "Rupees">>
        /\ exc' = "none"
        /\ clear_all(Cur') = Cur'
    ]_vars

\* a ledger of two or more items has just been cleared
C8_Witness == last.op = "clear_all" /\ last.n >= 2 /\ table = << >>

\* C9: the grand total of every ledger the form can hold converts to words
\* without an exception.
C9_ConvertIsTotal ==
    \A tieUp \in TieChoices(table) :
        convert_currency_to_words(GrandTotal(table), tieUp).exc = "none"

\* a phrase speaks of a hundred paise or more
HundredPaise(phrase) ==
    \E i, j \in 1..Len(phrase) : i < j /\ phrase[i] = "and" /\ phrase[j] = "Hundred"

\* C10: when the paise of the grand total round to 100, the phrase is that of
\* rupees + 1 with no paise part; no phrase speaks of a hundred paise.
C10_PaiseCarry ==
    \A tieUp \in TieChoices(table) :
        LET total  == GrandTotal(table)
            phrase == convert_currency_to_words(total, tieUp)
        IN  phrase.exc = "none" =>
               /\ RoundPaise(total, tieUp) = 100 =>
                     phrase = Concat(num_to_words(total.r + 1), Ret(<<" ", "Rupees">>))
               /\ ~HundredPaise(phrase.val)

\* the part of a phrase in front of " Rupees"
RupeeWords(phrase) ==
    LET at == CHOOSE i \in 1..Len(phrase) : phrase[i] = "Rupees"
    IN  SubSeq(phrase, 1, at - 2)

\* the non-empty ones of a list of parts, in their order, a blank between them
InOrder(parts) == Join(SelectSeq(parts, LAMBDA part : part # << >>))

\* the words of the crore, lakh and thousand groups of n, each followed by its
\* magnitude, and the three-digit words of the rest, zero groups left out
GroupsInOrder(n) ==
    LET crore    == n \div 10000000
        lakh     == (n % 10000000) \div 100000
        thousand == (n % 100000) \div 1000
        rest     == n % 1000
    IN  InOrder(<<IF crore = 0 THEN << >>
                  ELSE convert_two_digits(crore).val \o <<" ", "Crore">>,
                  IF lakh = 0 THEN << >>
                  ELSE convert_two_digits(lakh).val \o <<" ", "Lakh">>,
                  IF thousand = 0 THEN << >>
                  ELSE convert_two_digits(thousand).val \o <<" ", "Thousand">>,
                  IF rest = 0 THEN << >>
                  ELSE convert_three_digits(rest).val>>)

\* C11: for an amount of 1 to 99,99,99,999 whole rupees the rupee phrase is
\* the crore, lakh and thousand groups with their magnitudes and the
\* three-digit rest, in this order and without the zero groups; 1234567.89
\* gives Twelve Lakh Thirty Four Thousand Five Hundred Sixty Seven Rupees and
\* Eighty Nine Paise.
C11_GroupsInOrder ==
    /\ (conv.called /\ ~conv.amount.neg /\ conv.amount.r \in 1..999999999) =>
          /\ conv.result.exc = "none"
          /\ RupeeWords(conv.result.val) = GroupsInOrder(conv.amount.r)
    /\ (conv.called /\ conv.amount = Float(FALSE, 1234567, 8900)) =>
          conv.result.val =
              <<"Twelve", " ", "Lakh", " ", "Thirty", " ", "Four", " ", "Thousand",
                " ", "Five", " ", "Hundred", " ", "Sixty", " ", "Seven", " ",
                "Rupees", " ", "and", " ", "Eighty", " ", "Nine", " ", "Paise">>

\* an amount with all four groups, the crore group at its largest, has been
\* converted
C11_Witness ==
    /\ conv.called
    /\ conv.amount = Float(FALSE, 991234567, 8900)
    /\ conv.result.exc = "none"

\* the phrase ends with these tokens
EndsWith(phrase, suffix) ==
    /\ Len(phrase) >= Len(suffix)
    /\ SubSeq(phrase, Len(phrase) - Len(suffix) + 1, Len(phrase)) = suffix

\* C12: an amount whose integer part is 0 has the rupee part Zero, and 0
\* gives Zero Rupees; for every amount, with paise = 0 the phrase ends with
\* " Rupees" and has no paise part, and with paise in 1..99 it ends with
\* " Rupees and <two-digit words of paise> Paise".
C12_ZeroAndSuffix ==
    LET paise == RoundPaise(conv.amount, conv.tieUp)
    IN  conv.called =>
        /\ PyInt(conv.amount) = 0 =>
              /\ conv.result.exc = "none"
              /\ RupeeWords(conv.result.val) = <<"Zero">>
        /\ conv.amount = Zero => conv.result = Ret(<<"Zero", " ", "Rupees">>)
        /\ paise = 0 =>
              /\ conv.result.exc = "none"
              /\ EndsWith(conv.result.val, <<" ", "Rupees">>)
              /\ Count(conv.result.val, "Paise") = 0
        /\ paise \in 1..99 =>
              /\ conv.result.exc = "none"
              /\ EndsWith(conv.result.val,
                          <<" ", "Rupees", " ", "and", " ">>
                          \o convert_two_digits(paise).val \o <<" ", "Paise">>)

\* x < 0
Negative(x) == x.neg /\ (x.r > 0 \/ x.f > 0)

\* C13: convert_currency_to_words of a negative amount fails with a
\* DomainError and returns no phrase.
C13_NegativeIsDomainError ==
    (conv.called /\ Negative(conv.amount)) => conv.result = Raise("DomainError")

\* the name and the price are valid and the quantity field is blank
BlankQuantity ==
    /\ Strip(quantity_input) = << >>
    /\ Strip(item_input) # << >>
    /\ PriceOf(price_input).exc = "none"
    /\ Positive(PriceOf(price_input).val)

\* C14: add_item with a blank quantity field (empty or blanks only) and a
\* valid name and price appends one item with quantity 1 and total = price,
\* in the table and in the persisted rows.
C14_BlankQuantityIsOne ==
    [][(CallAddItem /\ BlankQuantity) =>
        LET price == PriceOf(price_input).val
            new   == table'[Len(table')]
            row   == db'[Len(db')]
        IN  /\ exc' = "none"
            /\ Len(table') = Len(table) + 1
            /\ SubSeq(table', 1, Len(table)) = table
            /\ new[ColName] = item_input
            /\ PyFloat(new[ColQuantity]).val = One
            /\ PyFloat(new[ColPrice]).val = price
            /\ PyFloat(new[ColTotal]).val = price
            /\ Len(db') = Len(db) + 1
            /\ row.quantity = One
            /\ row.total = price
    ]_vars

\* add_item has just appended an item from a quantity field of one blank
C14_Witness ==
    /\ last.op = "call_add_item"
    /\ last.n = 1
    /\ Len(table) = last.row + 1
    /\ table[Len(table)][ColQuantity] = <<"1", ".", "0">>
    /\ exc = "none"

\* check_fields would find the three fields valid
FieldsOk ==
    /\ Strip(item_input) # << >>
    /\ QuantityOf(quantity_input).exc = "none"
    /\ Positive(QuantityOf(quantity_input).val)
    /\ PriceOf(price_input).exc = "none"
    /\ Positive(PriceOf(price_input).val)

\* C15: whenever the Add Item button is enabled the fields hold a name that
\* is non-empty after trimming, a quantity > 0 (blank counting as 1) and a
\* price > 0; a click on the enabled button appends exactly one item, clears
\* the three fields and leaves the button disabled.
C15_EnabledMeansValid ==
    /\ [](add_button => FieldsOk)
    /\ [][ClickAdd =>
            /\ Len(table') = Len(table) + 1
            /\ SubSeq(table', 1, Len(table)) = table
            /\ item_input' = << >>
            /\ quantity_input' = << >>
            /\ price_input' = << >>
            /\ ~add_button'
       ]_vars

\* the button has just been clicked and has left the fields empty and itself
\* disabled
C15_Witness ==
    /\ last.op = "add_item"
    /\ Len(table) >= 1
    /\ item_input = << >> /\ quantity_input = << >> /\ price_input = << >>
    /\ ~add_button
    /\ exc = "none"

\* C16: the list widget shows the entries of pdf_files in their order, also
\* with a path selected more than once, and remove_pdf removes from pdf_files
\* the entry at the selected row.
C16_WidgetShowsPdfFiles ==
    /\ [](pdf_list_widget = pdf_files)
    /\ [][(ClickRemovePdf /\ selectedRow >= 0) =>
             pdf_files' = TakeItem(pdf_files, selectedRow)]_vars

\* C17: the Merge PDFs button is enabled if and only if pdf_files is not empty.
C17_MergeEnabledIffFiles == merge_button <=> (pdf_files # << >>)

\* new is old with the entries at rows i and j exchanged, all others in place
Exchanged(old, new, i, j) ==
    /\ Len(new) = Len(old)
    /\ new[i + 1] = old[j + 1]
    /\ new[j + 1] = old[i + 1]
    /\ \A k \in 1..Len(old) : (k # i + 1 /\ k # j + 1) => new[k] = old[k]

\* C18: move_up on selected row r > 0 exchanges the entries r and r-1 of
\* pdf_files, move_down on r < length-1 the entries r and r+1; move_up on row
\* 0 and move_down on the last row change nothing; the multiset of entries
\* and all other positions stay as they were.
C18_MovesExchangeNeighbours ==
    [][/\ (ClickMoveUp /\ selectedRow > 0) =>
              Exchanged(pdf_files, pdf_files', selectedRow, selectedRow - 1)
       /\ (ClickMoveDown /\ selectedRow >= 0 /\ selectedRow < Len(pdf_files) - 1) =>
              Exchanged(pdf_files, pdf_files', selectedRow, selectedRow + 1)
       /\ (ClickMoveUp /\ selectedRow = 0) => UNCHANGED pdfVars
       /\ (ClickMoveDown /\ selectedRow = Len(pdf_files) - 1) => UNCHANGED pdfVars
       /\ (ClickMoveUp \/ ClickMoveDown) =>
              \A path \in Cells(pdf_files) \cup Cells(pdf_files') :
                  Count(pdf_files', path) = Count(pdf_files, path)
    ]_vars

\* the last of three entries has just been moved up past a different one
C18_Witness ==
    /\ last.op = "move_up"
    /\ last.row = 2
    /\ Len(pdf_files) = 3
    /\ pdf_files[2] # pdf_files[3]

====
